---- MODULE Spec2Model ----
(***************************************************************************)
(* bun-serve-static: the request handler returned by serveStatic           *)
(* (src/src/index.ts, lines 47-87).                                        *)
(*                                                                         *)
(* A string is a sequence of one-character strings, so that prefixes,      *)
(* percent escapes and path segments are computed character by character   *)
(* as the JavaScript runtime computes them.                                *)
(***************************************************************************)
EXTENDS Integers, Sequences, FiniteSets, TLC

(***************************************************************************)
(* Bounds of the model.                                                    *)
(***************************************************************************)
\* Number of percent-encoding layers put around a request path.
MaxLayers == 3
\* Number of callers of the handler.
NReq == 2

(***************************************************************************)
(* Constants of the program.                                               *)
(***************************************************************************)
\* The number of decoding rounds decodeUriDeep allows.
DecodeRounds == 3

(***************************************************************************)
(* Characters and percent escapes.                                         *)
(***************************************************************************)
\* The printable ASCII characters, code 32 (space) to code 126 (~); the grave
\* accent, code 96, is written GRAVE.
Printable ==
  << " ", "!", "\"", "#", "$", "%", "&", "'", "(", ")", "*", "+", ",", "-", ".", "/",
     "0", "1", "2", "3", "4", "5", "6", "7", "8", "9", ":", ";", "<", "=", ">", "?",
     "@", "A", "B", "C", "D", "E", "F", "G", "H", "I", "J", "K", "L", "M", "N", "O",
     "P", "Q", "R", "S", "T", "U", "V", "W", "X", "Y", "Z", "[", "\\", "]", "^", "_",
     "GRAVE", "a", "b", "c", "d", "e", "f", "g", "h", "i", "j", "k", "l", "m", "n", "o",
     "p", "q", "r", "s", "t", "u", "v", "w", "x", "y", "z", "{", "|", "}", "~" >>

UpperHex == <<"0", "1", "2", "3", "4", "5", "6", "7", "8", "9", "A", "B", "C", "D", "E", "F">>
LowerHex == <<"0", "1", "2", "3", "4", "5", "6", "7", "8", "9", "a", "b", "c", "d", "e", "f">>

IsHex(c) == \E k \in 1..16 : UpperHex[k] = c \/ LowerHex[k] = c

HexVal(c) == (CHOOSE k \in 1..16 : UpperHex[k] = c \/ LowerHex[k] = c) - 1

\* The character of a byte below 128 (a control character is named by its code).
AsciiChar(b) == IF b >= 32 /\ b <= 126 THEN Printable[b - 31] ELSE "\\x" \o ToString(b)

\* The code of a printable ASCII character.
CharCode(c) == (CHOOSE k \in 1..95 : Printable[k] = c) + 31

\* The escape %XX (upper-case hex) of a printable ASCII character.
Escape(c) == <<"%", UpperHex[(CharCode(c) \div 16) + 1], UpperHex[(CharCode(c) % 16) + 1]>>

Ok(s) == [ok |-> TRUE, val |-> s]
Failed == [ok |-> FALSE, val |-> <<>>]

\* The byte of the escape at s[k..k+2], or -1 when there is no well-formed escape.
EscapeByte(s, k) ==
  IF k + 2 <= Len(s) /\ s[k] = "%" /\ IsHex(s[k + 1]) /\ IsHex(s[k + 2])
  THEN 16 * HexVal(s[k + 1]) + HexVal(s[k + 2])
  ELSE -1

\* Number of continuation bytes a UTF-8 lead byte announces (-1: not a lead byte).
Utf8Tail(b) ==
  IF b >= 194 /\ b <= 223 THEN 1
  ELSE IF b >= 224 /\ b <= 239 THEN 2
  ELSE IF b >= 240 /\ b <= 244 THEN 3
  ELSE -1

\* The escapes at s[k], s[k+3], ... are n UTF-8 continuation bytes (128..191).
RECURSIVE Utf8Continues(_, _, _)
Utf8Continues(s, k, n) ==
  \/ n = 0
  \/ /\ EscapeByte(s, k) >= 128
     /\ EscapeByte(s, k) <= 191
     /\ Utf8Continues(s, k + 3, n - 1)

\* The second byte of a 3- or 4-byte sequence excludes overlong forms,
\* surrogates and code points above U+10FFFF.
Utf8SecondOk(b, c) ==
  /\ (b = 224 => c >= 160)
  /\ (b = 237 => c <= 159)
  /\ (b = 240 => c >= 144)
  /\ (b = 244 => c <= 143)

\* The one token standing for the non-ASCII character encoded at s[k..].
RECURSIVE Utf8Name(_, _, _)
Utf8Name(s, k, n) ==
  IF n = 0 THEN ""
  ELSE "\\x" \o ToString(EscapeByte(s, k)) \o Utf8Name(s, k + 3, n - 1)

\* decodeURIComponent: every %XX becomes its byte, the bytes are read as UTF-8;
\* a % without two hex digits, or bytes that are not UTF-8, throw URIError.
RECURSIVE DecodeFrom(_, _)
DecodeFrom(s, k) ==
  IF k > Len(s) THEN Ok(<<>>)
  ELSE IF s[k] # "%"
  THEN LET rest == DecodeFrom(s, k + 1)
       IN  IF rest.ok THEN Ok(<<s[k]>> \o rest.val) ELSE Failed
  ELSE LET b == EscapeByte(s, k)
       IN  IF b < 0 THEN Failed
           ELSE IF b < 128
           THEN LET rest == DecodeFrom(s, k + 3)
                IN  IF rest.ok THEN Ok(<<AsciiChar(b)>> \o rest.val) ELSE Failed
           ELSE LET n == Utf8Tail(b)
                IN  IF n < 0 \/ ~Utf8Continues(s, k + 3, n)
                       \/ ~Utf8SecondOk(b, EscapeByte(s, k + 3))
                    THEN Failed
                    ELSE LET rest == DecodeFrom(s, k + 3 * (n + 1))
                         IN  IF rest.ok
                             THEN Ok(<<Utf8Name(s, k, n + 1)>> \o rest.val)
                             ELSE Failed

decodeURIComponent(uri) == DecodeFrom(uri, 1)

\* Characters encodeURIComponent leaves alone.
Unreserved(c) ==
  \/ \E k \in 1..95 : /\ Printable[k] = c
                      /\ \/ (k + 31 >= 48 /\ k + 31 <= 57)
                         \/ (k + 31 >= 65 /\ k + 31 <= 90)
                         \/ (k + 31 >= 97 /\ k + 31 <= 122)
  \/ c \in {"-", "_", ".", "!", "~", "*", "'", "(", ")"}

\* Escape every character of s that is in none of the kept ones.
RECURSIVE EscapeExcept(_, _)
EscapeExcept(s, keep) ==
  IF s = <<>> THEN <<>>
  ELSE (IF Unreserved(Head(s)) \/ Head(s) \in keep THEN <<Head(s)>> ELSE Escape(Head(s)))
       \o EscapeExcept(Tail(s), keep)

(***************************************************************************)
(* new URL(req.url).pathname: the path state of the URL parser.            *)
(***************************************************************************)
\* The pieces of s between the separators.
RECURSIVE SplitOn(_, _)
SplitOn(s, seps) ==
  IF s = <<>> THEN << <<>> >>
  ELSE LET rest == SplitOn(Tail(s), seps)
       IN  IF Head(s) \in seps
           THEN << <<>> >> \o rest
           ELSE << <<Head(s)>> \o Head(rest) >> \o Tail(rest)

\* The request target up to its query (?) or fragment (#).
RECURSIVE PathPart(_)
PathPart(s) ==
  IF s = <<>> \/ Head(s) \in {"?", "#"} THEN <<>>
  ELSE <<Head(s)>> \o PathPart(Tail(s))

SingleDot(seg) == seg \in { <<".">>, <<"%", "2", "e">>, <<"%", "2", "E">> }

DoubleDot(seg) ==
  \E a, b \in { <<".">>, <<"%", "2", "e">>, <<"%", "2", "E">> } : seg = a \o b

\* The characters the parser escapes in a path segment.
PathPercentEncodeSet == {" ", "\"", "<", ">", "GRAVE", "^", "{", "}"}

RECURSIVE UrlEncodeSegment(_)
UrlEncodeSegment(seg) ==
  IF seg = <<>> THEN <<>>
  ELSE (IF Head(seg) \in PathPercentEncodeSet THEN Escape(Head(seg)) ELSE <<Head(seg)>>)
       \o UrlEncodeSegment(Tail(seg))

\* A dot segment is dropped, a double-dot segment removes the segment before
\* it; either one, when last, leaves an empty last segment.
RECURSIVE UrlSegments(_, _)
UrlSegments(segs, path) ==
  IF segs = <<>> THEN path
  ELSE LET seg  == Head(segs)
           last == Len(segs) = 1
           open == IF last THEN << <<>> >> ELSE <<>>
       IN  IF DoubleDot(seg)
           THEN UrlSegments(Tail(segs),
                            (IF path = <<>> THEN <<>> ELSE SubSeq(path, 1, Len(path) - 1)) \o open)
           ELSE IF SingleDot(seg)
           THEN UrlSegments(Tail(segs), path \o open)
           ELSE UrlSegments(Tail(segs), Append(path, UrlEncodeSegment(seg)))

\* Every segment preceded by a slash.
RECURSIVE SlashEach(_)
SlashEach(segs) ==
  IF segs = <<>> THEN <<>> ELSE <<"/">> \o Head(segs) \o SlashEach(Tail(segs))

\* The pathname of the URL http://localhost<target>.
UrlPathname(target) ==
  LET pieces == SplitOn(PathPart(target), {"/", "\\"})
      segs   == IF Head(pieces) = <<>> /\ Len(pieces) > 1 THEN Tail(pieces) ELSE pieces
  IN  SlashEach(UrlSegments(segs, <<>>))

(***************************************************************************)
(* The path module (POSIX): normalize, join, resolve.                      *)
(***************************************************************************)
\* Empty and dot segments vanish; a double dot removes the segment before it,
\* is dropped at the root of an absolute path and kept in a relative one.
RECURSIVE NormalizeSegments(_, _, _)
NormalizeSegments(segs, res, absolute) ==
  IF segs = <<>> THEN res
  ELSE LET seg == Head(segs)
       IN  IF seg = <<>> \/ seg = <<".">>
           THEN NormalizeSegments(Tail(segs), res, absolute)
           ELSE IF seg = <<".", ".">>
           THEN IF res # <<>> /\ res[Len(res)] # <<".", ".">>
                THEN NormalizeSegments(Tail(segs), SubSeq(res, 1, Len(res) - 1), absolute)
                ELSE IF absolute
                THEN NormalizeSegments(Tail(segs), res, absolute)
                ELSE NormalizeSegments(Tail(segs), Append(res, seg), absolute)
           ELSE NormalizeSegments(Tail(segs), Append(res, seg), absolute)

\* The segments with a slash between them.
SlashBetween(segs) == IF segs = <<>> THEN <<>> ELSE Tail(SlashEach(segs))

\* path.normalize
PathNormalize(p) ==
  IF p = <<>> THEN <<".">>
  ELSE LET absolute == Head(p) = "/"
           trailing == p[Len(p)] = "/"
           body     == SlashBetween(NormalizeSegments(SplitOn(p, {"/"}), <<>>, absolute))
       IN  IF body = <<>>
           THEN IF absolute THEN <<"/">> ELSE IF trailing THEN <<".", "/">> ELSE <<".">>
           ELSE (IF absolute THEN <<"/">> ELSE <<>>) \o body
                \o (IF trailing THEN <<"/">> ELSE <<>>)

\* path.join(a, b): the non-empty arguments, a slash between them, normalized.
PathJoin(a, b) ==
  IF a = <<>> /\ b = <<>> THEN <<".">>
  ELSE IF a = <<>> THEN PathNormalize(b)
  ELSE IF b = <<>> THEN PathNormalize(a)
  ELSE PathNormalize(a \o <<"/">> \o b)

\* The working directory of the process.
Cwd == <<"/">>

\* path.resolve(p): absolute, normalized, without a trailing slash.
PathResolve(p) ==
  LET full == IF p # <<>> /\ Head(p) = "/" THEN p ELSE Cwd \o <<"/">> \o p
  IN  <<"/">> \o SlashBetween(NormalizeSegments(SplitOn(full, {"/"}), <<>>, TRUE))

\* String.prototype.startsWith
startsWith(s, prefix) ==
  /\ Len(prefix) <= Len(s)
  /\ SubSeq(s, 1, Len(prefix)) = prefix

\* The results of decodeUriDeep: a string, null, or (were it not caught) the
\* URIError of a round; rounds counts the calls of decodeURIComponent.
Decoded(s, n) == [ok |-> TRUE, val |-> s, rounds |-> n, threw |-> FALSE]
NullResult(n) == [ok |-> FALSE, val |-> <<>>, rounds |-> n, threw |-> FALSE]
Thrown(n) == [ok |-> FALSE, val |-> <<>>, rounds |-> n, threw |-> TRUE]

\* A variant of the loop that returns the last value when the rounds run out.
RECURSIVE DecodeLoop_ReturnLast(_, _)
DecodeLoop_ReturnLast(uri, i) ==
  IF i >= DecodeRounds THEN Decoded(uri, i)
  ELSE LET decoded == decodeURIComponent(uri)
       IN  IF ~decoded.ok THEN Thrown(i + 1)
           ELSE IF decoded.val = uri THEN Decoded(decoded.val, i + 1)
           ELSE DecodeLoop_ReturnLast(decoded.val, i + 1)

\* Lines 78-84: the loop of decodeUriDeep, from round i on.
RECURSIVE DecodeLoop(_, _)
DecodeLoop(uri, i) ==
  IF i >= DecodeRounds THEN NullResult(i)
  ELSE LET decoded == decodeURIComponent(uri)
       IN  IF ~decoded.ok THEN Thrown(i + 1)
           ELSE IF decoded.val = uri THEN Decoded(decoded.val, i + 1)
           ELSE DecodeLoop(decoded.val, i + 1)

\* A variant that accepts only a path the first round leaves unchanged.
decodeUriDeep_Strict(uri) ==
  LET decoded == decodeURIComponent(uri)
  IN  IF decoded.ok /\ decoded.val = uri THEN Decoded(uri, 1) ELSE NullResult(1)

\* A variant without the try and catch: the URIError leaves the function.
decodeUriDeep_NoCatch(uri) == DecodeLoop(uri, 0)

\* Lines 76-87: decodeUriDeep; the catch turns a URIError into null.
decodeUriDeep(uri) ==
  LET result == DecodeLoop(uri, 0)
  IN  IF result.threw THEN NullResult(result.rounds) ELSE result

(***************************************************************************)
(* The inputs: file systems, arguments of serveStatic, request targets.    *)
(***************************************************************************)
\* Regular files on disk. /r is the directory served; /k and /rs/k lie outside it.
\* (/r is what the root argument r/ resolves to.)
FilesFull ==
  { <<"/", "r", "/", "a">>,
    <<"/", "r", "/", "d", "/", "b">>,
    <<"/", "r", "/", "a", " ", "b">>,
    <<"/", "r", "/", "c", "%">>,
    <<"/", "r", "/", "i">>,
    <<"/", "k">>,
    <<"/", "r", "s", "/", "k">> }

\* The same disk without the index file and the files of /r/d.
FilesBare ==
  { <<"/", "r", "/", "a">>,
    <<"/", "k">>,
    <<"/", "r", "s", "/", "k">> }

FileSystems == {FilesFull, FilesBare}

\* The directories of a disk: / and every ancestor of a file.
DirsOf(fs) ==
  { <<"/">> } \cup
  UNION { { SubSeq(f, 1, k - 1) : k \in { j \in 2..Len(f) : f[j] = "/" } } : f \in fs }

\* p without the slash at its end.
WithoutSlash(p) == IF Len(p) > 1 /\ p[Len(p)] = "/" THEN SubSeq(p, 1, Len(p) - 1) ELSE p

\* The root argument of serveStatic.
RootArgs == { <<"r", "/">>, <<"/">> }

\* The fallback option: absent, a file name, or a function answering at once
\* (sync) or through a promise (async).
NoFallback == [kind |-> "none", path |-> <<>>]
FallbackArgs ==
  { NoFallback,
    [kind |-> "string", path |-> <<"i">>],
    [kind |-> "string", path |-> <<".", ".", "/", "k">>],
    [kind |-> "sync", path |-> <<>>],
    [kind |-> "async", path |-> <<>>] }

\* The mapping option: absent (no key), or a table.
NoMapping == [k \in {} |-> <<>>]
MappingTable ==
  LET keys == { <<"/", "p">>, <<"/", "q">>, <<"/", "d", "/", "b">>, <<"/", "t">>,
                <<"/", "s">>, <<"/", "e">>, <<"/", "x">>, <<"/", "i">> }
  IN  [k \in keys |->
         CASE k = <<"/", "p">> -> <<"/", "a">>
           [] k = <<"/", "q">> -> <<"/", "p">>
           [] k = <<"/", "d", "/", "b">> -> <<"/", "a">>
           [] k = <<"/", "t">> -> <<"/", ".", ".", "/", "k">>
           [] k = <<"/", "s">> -> <<".", ".", "/", "r", "s", "/", "k">>
           [] k = <<"/", "e">> -> <<"/", "a", "%", "2", "0", "b">>
           [] k = <<"/", "x">> -> <<>>
           [] k = <<"/", "i">> -> <<"i">>]
MappingArgs == {NoMapping, MappingTable}

\* Decoded paths a client may aim at.
Bases ==
  { <<"/">>,
    <<"/", "a">>,
    <<"/", "d", "/", "b">>,
    <<"/", "d">>,
    <<"/", "d", "/">>,
    <<"/", "m">>,
    <<"/", "a", " ", "b">>,
    <<"/", "c", "%">>,
    <<"/", ".", ".", "/", "k">>,
    <<"/", ".", ".", "/", "r", "s", "/", "k">>,
    <<"/", "d", "/", ".", ".", "/", "a">>,
    <<"/", "r", "/", "a">> }

\* encodeURIComponent applied to each segment: the slashes stay.
EncodePath(s) == EscapeExcept(s, {"/"})

\* encodeURIComponent applied to all that follows the first slash.
EncodeAll(s) == <<"/">> \o EscapeExcept(Tail(s), {})

\* n further layers of percent-encoding.
RECURSIVE Layers(_, _)
Layers(s, n) == IF n = 0 THEN s ELSE Layers(EncodePath(s), n - 1)

\* Malformed and non-ASCII escapes, the multi-layer request of the tests, the keys
\* of the mapping table.
OtherTargets ==
  { <<"/", "%">>,
    <<"/", "%", "z", "z">>,
    <<"/", "%", "E", "0">>,
    <<"/", "%", "C", "3", "%", "A", "9">>,
    <<"/", "%", "2", "5", "2", "E", "%", "2", "5", "2", "E", "%", "2", "5", "2", "F", "k">>,
    <<"/", "a", "/">>,
    <<"/", "a", "?", "q">>,
    <<"/", "p">>, <<"/", "q">>, <<"/", "t">>, <<"/", "s">>, <<"/", "e">>,
    <<"/", "x">>, <<"/", "i">> }

\* The request targets: a base as it is, or encoded and wrapped in up to
\* MaxLayers layers.
Targets ==
  Bases \cup OtherTargets
  \cup { Layers(EncodePath(b), n) : b \in Bases, n \in 0..(MaxLayers - 1) }
  \cup { Layers(EncodeAll(b), n) : b \in Bases, n \in 0..(MaxLayers - 1) }

(***************************************************************************)
(* The state.                                                              *)
(***************************************************************************)
VARIABLES
  files,        \* the regular files on disk
  args,         \* the arguments serveStatic was called with
  root,         \* root, after line 51
  fallback,     \* fallback, after lines 52-53
  mapping,      \* the mapping option
  pc,           \* where each invocation of the handler stands
  req,          \* its request (the target of req.url)
  filePath,     \* its filePath, the result of decodeUriDeep
  absolutePath, \* its absolutePath
  outcome,      \* what it resolved to
  cause,        \* why it turned to the fallback, if it did
  probes,       \* the paths it called exists() on, in order
  calls,        \* the requests it called the fallback function with, in order
  seen,         \* the disk as each of its exists() calls found it, in order
  missLog       \* every (cause, outcome) a miss has ended with so far

vars == <<files, args, root, fallback, mapping, pc, req, filePath, absolutePath,
          outcome, cause, probes, calls, seen, missLog>>

config == <<files, args, root, fallback, mapping>>

Req == 1..NReq

Pending == [kind |-> "pending", path |-> <<>>]
Null == [kind |-> "null", path |-> <<>>]
FileResponse(p) == [kind |-> "file", path |-> p]
CallbackResponse == [kind |-> "callback", path |-> <<>>]
\* The promise of the handler rejected with an exception.
Rejected == [kind |-> "rejected", path |-> <<>>]

\* A variant that leaves a string fallback as it was given.
ResolveFallback_NoJoin(r, f) == f

\* Lines 51-53: root is resolved, a string fallback is joined to it.
ResolveFallback(r, f) ==
  IF f.kind = "string" THEN [kind |-> "string", path |-> PathJoin(r, f.path)] ELSE f

Init ==
  /\ files \in FileSystems
  /\ args \in [root : RootArgs, fallback : FallbackArgs, mapping : MappingArgs]
  /\ root = PathResolve(args.root)
  /\ fallback = ResolveFallback(root, args.fallback)
  /\ mapping = args.mapping
  /\ pc = [i \in Req |-> "idle"]
  /\ req = [i \in Req |-> <<>>]
  /\ filePath = [i \in Req |-> NullResult(0)]
  /\ absolutePath = [i \in Req |-> <<>>]
  /\ outcome = [i \in Req |-> Pending]
  /\ cause = [i \in Req |-> "none"]
  /\ probes = [i \in Req |-> <<>>]
  /\ calls = [i \in Req |-> <<>>]
  /\ seen = [i \in Req |-> <<>>]
  /\ missLog = {}

(***************************************************************************)
(* The handler.                                                            *)
(***************************************************************************)
\* A variant of exists() that holds of a directory as well.
FileExists_Stat(p) == p \in files \/ WithoutSlash(p) \in DirsOf(files)

\* bunFile(p).exists(): a regular file is there (a directory is not one).
FileExists(p) == p \in files

\* A variant that looks the mapped value up again.
MappedPathname_Transitive(pathname) ==
  LET once == IF pathname \in DOMAIN mapping THEN mapping[pathname] ELSE pathname
  IN  IF once \in DOMAIN mapping THEN mapping[once] ELSE once

\* Line 65: mapping?.[pathname] ?? pathname
MappedPathname(pathname) ==
  IF pathname \in DOMAIN mapping THEN mapping[pathname] ELSE pathname

\* Line 67: !filePath holds of null and of the empty string.
Falsy(decoded) == ~decoded.ok \/ decoded.val = <<>>

\* Line 69: the containment test.
InsideRoot(p) == startsWith(p, root)

\* A variant that hands the fallback function the rewritten pathname.
CallbackArgument_Mapped(i, r) == MappedPathname(UrlPathname(r))

\* The request handed to the fallback function (line 57).
CallbackArgument(i, r) == r

\* The invocation ends with the response out.
Finish(i, why, out) ==
  /\ pc' = [pc EXCEPT ![i] = "done"]
  /\ outcome' = [outcome EXCEPT ![i] = out]
  /\ missLog' = IF why = "none" THEN missLog ELSE missLog \cup { <<why, out>> }

\* A variant that answers a path outside Root with null, whatever the fallback.
fallbackOrNull_Leaky(i, r, why) ==
  /\ cause' = [cause EXCEPT ![i] = why]
  /\ IF fallback.kind = "none" \/ why = "outside"
     THEN /\ Finish(i, why, Null)
          /\ UNCHANGED <<probes, calls>>
     ELSE IF fallback.kind = "sync"
     THEN /\ calls' = [calls EXCEPT ![i] = Append(@, CallbackArgument(i, r))]
          /\ Finish(i, why, CallbackResponse)
          /\ UNCHANGED probes
     ELSE IF fallback.kind = "async"
     THEN /\ calls' = [calls EXCEPT ![i] = Append(@, CallbackArgument(i, r))]
          /\ pc' = [pc EXCEPT ![i] = "callback"]
          /\ UNCHANGED <<outcome, missLog, probes>>
     ELSE /\ probes' = [probes EXCEPT ![i] = Append(@, fallback.path)]
          /\ pc' = [pc EXCEPT ![i] = "fallbackExists"]
          /\ UNCHANGED <<outcome, missLog, calls>>

\* Lines 55-58: fallbackOrNull up to its first await.
fallbackOrNull(i, r, why) ==
  /\ cause' = [cause EXCEPT ![i] = why]
  /\ IF fallback.kind = "none"
     THEN /\ Finish(i, why, Null)
          /\ UNCHANGED <<probes, calls>>
     ELSE IF fallback.kind = "sync"
     THEN /\ calls' = [calls EXCEPT ![i] = Append(@, CallbackArgument(i, r))]
          /\ Finish(i, why, CallbackResponse)
          /\ UNCHANGED probes
     ELSE IF fallback.kind = "async"
     THEN /\ calls' = [calls EXCEPT ![i] = Append(@, CallbackArgument(i, r))]
          /\ pc' = [pc EXCEPT ![i] = "callback"]
          /\ UNCHANGED <<outcome, missLog, probes>>
     ELSE /\ probes' = [probes EXCEPT ![i] = Append(@, fallback.path)]
          /\ pc' = [pc EXCEPT ![i] = "fallbackExists"]
          /\ UNCHANGED <<outcome, missLog, calls>>

\* Lines 63-71: the handler is called with a request and runs to its first await.
HandleFrom(i, targets) ==
  \E target \in targets :
    /\ pc[i] = "idle"
    /\ req' = [req EXCEPT ![i] = target]
    /\ LET pathname       == UrlPathname(target)
           mappedPathname == MappedPathname(pathname)
           decoded        == decodeUriDeep(mappedPathname)
           joined         == PathJoin(root, decoded.val)
       IN  /\ filePath' = [filePath EXCEPT ![i] = decoded]
           /\ IF decoded.threw
              THEN /\ Finish(i, "none", Rejected)
                   /\ UNCHANGED <<absolutePath, cause, probes, calls>>
              ELSE IF Falsy(decoded)
              THEN /\ fallbackOrNull(i, target, "decode")
                   /\ UNCHANGED absolutePath
              ELSE IF ~InsideRoot(joined)
              THEN /\ fallbackOrNull(i, target, "outside")
                   /\ absolutePath' = [absolutePath EXCEPT ![i] = joined]
              ELSE /\ absolutePath' = [absolutePath EXCEPT ![i] = joined]
                   /\ probes' = [probes EXCEPT ![i] = Append(@, joined)]
                   /\ pc' = [pc EXCEPT ![i] = "exists"]
                   /\ UNCHANGED <<outcome, cause, calls, missLog>>
    /\ UNCHANGED <<config, seen>>

\* A variant that keeps absolutePath in one variable of the closure, shared by
\* the invocations: the answer is read for the path of any invocation under way.
Exists_SharedPath(i) ==
  /\ pc[i] = "exists"
  /\ \E j \in Req :
       /\ pc[j] # "idle"
       /\ absolutePath[j] # <<>>
       /\ IF FileExists(absolutePath[j])
          THEN /\ Finish(i, "none", FileResponse(absolutePath[j]))
               /\ UNCHANGED <<cause, probes, calls>>
          ELSE fallbackOrNull(i, req[i], "absent")
  /\ seen' = [seen EXCEPT ![i] = Append(@, files)]
  /\ UNCHANGED <<config, req, filePath, absolutePath>>

\* Lines 71-72: file.exists() has answered.
Exists(i) ==
  /\ pc[i] = "exists"
  /\ IF FileExists(absolutePath[i])
     THEN /\ Finish(i, "none", FileResponse(absolutePath[i]))
          /\ UNCHANGED <<cause, probes, calls>>
     ELSE fallbackOrNull(i, req[i], "absent")
  /\ seen' = [seen EXCEPT ![i] = Append(@, files)]
  /\ UNCHANGED <<config, req, filePath, absolutePath>>

\* A variant that serves the fallback file without looking at the answer.
FallbackExists_NoCheck(i) ==
  /\ pc[i] = "fallbackExists"
  /\ Finish(i, cause[i], FileResponse(fallback.path))
  /\ seen' = [seen EXCEPT ![i] = Append(@, files)]
  /\ UNCHANGED <<config, req, filePath, absolutePath, cause, probes, calls>>

\* Lines 59-60: the fallback file's exists() has answered.
FallbackExists(i) ==
  /\ pc[i] = "fallbackExists"
  /\ IF FileExists(fallback.path)
     THEN Finish(i, cause[i], FileResponse(fallback.path))
     ELSE Finish(i, cause[i], Null)
  /\ seen' = [seen EXCEPT ![i] = Append(@, files)]
  /\ UNCHANGED <<config, req, filePath, absolutePath, cause, probes, calls>>

\* Line 57: the promise of the fallback function has resolved.
CallbackResolved(i) ==
  /\ pc[i] = "callback"
  /\ Finish(i, cause[i], CallbackResponse)
  /\ UNCHANGED <<config, req, filePath, absolutePath, cause, probes, calls, seen>>

\* The caller has the response; the invocation is over.
Return(i) ==
  /\ pc[i] = "done"
  /\ pc' = [pc EXCEPT ![i] = "idle"]
  /\ req' = [req EXCEPT ![i] = <<>>]
  /\ filePath' = [filePath EXCEPT ![i] = NullResult(0)]
  /\ absolutePath' = [absolutePath EXCEPT ![i] = <<>>]
  /\ outcome' = [outcome EXCEPT ![i] = Pending]
  /\ cause' = [cause EXCEPT ![i] = "none"]
  /\ probes' = [probes EXCEPT ![i] = <<>>]
  /\ calls' = [calls EXCEPT ![i] = <<>>]
  /\ seen' = [seen EXCEPT ![i] = <<>>]
  /\ UNCHANGED <<config, missLog>>

\* A caller awaits the handler: the next request comes when no invocation is
\* under way.
Handle(i) ==
  /\ \A j \in Req : pc[j] = "idle"
  /\ HandleFrom(i, Targets)

Next ==
  \E i \in Req :
    \/ Handle(i)
    \/ Exists(i)
    \/ FallbackExists(i)
    \/ CallbackResolved(i)
    \/ Return(i)

Spec == Init /\ [][Next]_vars

\* The file system answers every exists() and the promise of the fallback
\* function settles.
FairSpec ==
  /\ Spec
  /\ \A i \in Req : /\ WF_vars(Exists(i))
                     /\ WF_vars(FallbackExists(i))
                     /\ WF_vars(CallbackResolved(i))

(***************************************************************************)
(* Requests in flight together, on a disk that is written meanwhile.       *)
(***************************************************************************)
\* The targets of the requests in flight together: the file that is also the
\* fallback file, a key mapped to another file, a malformed escape, a path
\* that leaves Root.
ConcTargets ==
  { <<"/", "i">>,
    <<"/", "p">>,
    <<"/", "%">>,
    <<"/", ".", ".", "%", "2", "F", "k">> }

\* The file written and removed while requests are in flight.
ChangedFiles == { <<"/", "r", "/", "i">> }

\* serveStatic("r/", {fallback, mapping}) with a fallback file or an
\* asynchronous fallback function.
ConcInit ==
  /\ Init
  /\ files = FilesFull
  /\ args.root = <<"r", "/">>
  /\ args.fallback \in { [kind |-> "string", path |-> <<"i">>],
                         [kind |-> "async", path |-> <<>>] }
  /\ args.mapping = MappingTable

\* The handler is called while other invocations may be suspended.
Accept(i) == HandleFrom(i, ConcTargets)

\* Another process writes a file.
WriteFile ==
  /\ \E f \in ChangedFiles \ files : files' = files \cup {f}
  /\ UNCHANGED <<args, root, fallback, mapping, pc, req, filePath, absolutePath,
                 outcome, cause, probes, calls, seen, missLog>>

\* Another process removes a file.
RemoveFile ==
  /\ \E f \in ChangedFiles \cap files : files' = files \ {f}
  /\ UNCHANGED <<args, root, fallback, mapping, pc, req, filePath, absolutePath,
                 outcome, cause, probes, calls, seen, missLog>>

ConcNext ==
  \/ WriteFile
  \/ RemoveFile
  \/ \E i \in Req :
       \/ Accept(i)
       \/ Exists(i)
       \/ FallbackExists(i)
       \/ CallbackResolved(i)
       \/ Return(i)

ConcSpec == ConcInit /\ [][ConcNext]_vars

(***************************************************************************)
(* Vocabulary of the properties.                                           *)
(***************************************************************************)
\* r with a slash at its end.
WithSlash(r) == IF r[Len(r)] = "/" THEN r ELSE r \o <<"/">>

\* p is r, or lies below r in the directory tree.
Under(r, p) == p = r \/ startsWith(p, WithSlash(r))

Done(i) == pc[i] = "done"

\* The invocation has answered with the file it resolved from the request.
ServedRequestFile(i) == Done(i) /\ cause[i] = "none" /\ outcome[i].kind = "file"

\* The invocation has answered after a miss.
Missed(i) == Done(i) /\ cause[i] # "none"

\* The pathname of the request's URL.
Pathname(i) == UrlPathname(req[i])

\* The pathname the handler decodes: the mapped value of a key, else the pathname.
Looked(i) == IF Pathname(i) \in DOMAIN mapping THEN mapping[Pathname(i)] ELSE Pathname(i)

HasDotDot(p) == \E k \in 1..Len(SplitOn(p, {"/"})) : SplitOn(p, {"/"})[k] = <<".", ".">>

HasPercent(p) == \E k \in 1..Len(p) : p[k] = "%"

\* The outcome of a miss, from the fallback and the disk alone.
MissOutcome ==
  IF fallback.kind = "none" THEN Null
  ELSE IF fallback.kind = "string"
  THEN IF fallback.path \in files THEN FileResponse(fallback.path) ELSE Null
  ELSE CallbackResponse

(***************************************************************************)
(* C1. Containment: a file served from the request path is Root or lies    *)
(* below Root, never elsewhere on disk (a sibling whose name starts with   *)
(* the characters of Root included).                                       *)
(***************************************************************************)
C1_Containment ==
  \A i \in Req : ServedRequestFile(i) => Under(root, outcome[i].path)

(***************************************************************************)
(* C2. Hit: a request whose pathname is the percent-encoded form of the    *)
(* relative path P of an existing regular file Root/P (P without a ..      *)
(* segment, the pathname not a mapping key) is answered with that file,    *)
(* whatever the fallback.                                                  *)
(***************************************************************************)
\* The relative paths of the regular files below Root.
RelativeFiles ==
  { SubSeq(f, Len(WithSlash(root)) + 1, Len(f)) :
      f \in { g \in files : Under(root, g) /\ g # root } }

\* Every request for one of the names is answered with its file.
HitFor(names) ==
  \A i \in Req : \A P \in names :
    ( /\ Done(i)
      /\ Pathname(i) = <<"/">> \o EncodePath(P)
      /\ Pathname(i) \notin DOMAIN mapping )
    => outcome[i] = FileResponse(WithSlash(root) \o P)

\* C2 as stated: for every file name, a literal % in the name included.
C2_HitEveryName == HitFor({ P \in RelativeFiles : ~HasDotDot(P) })

\* C2 amended: for every file name without a % character (spaces included).
C2_HitWithoutPercent == HitFor({ P \in RelativeFiles : ~HasDotDot(P) /\ ~HasPercent(P) })

\* A file whose name has a space has been served for its encoded pathname.
C2_Witness ==
  \E i \in Req :
    /\ Done(i)
    /\ Pathname(i) = <<"/", "a", "%", "2", "0", "b">>
    /\ fallback.kind # "none"
    /\ outcome[i] = FileResponse(<<"/", "r", "/", "a", " ", "b">>)

(***************************************************************************)
(* C3. Bounded decoding: decodeUriDeep makes at most 3 decoding rounds and *)
(* returns a path only when one of them returns its input unchanged (the   *)
(* path is then a fixed point of decoding); when a round throws or all 3   *)
(* rounds change the string the result is null, no file is resolved from   *)
(* the request, and the outcome is the fallback or absence.                *)
(***************************************************************************)
\* decodeURIComponent applied n times (ok is FALSE once a round has thrown).
RECURSIVE Rounds(_, _)
Rounds(s, n) ==
  IF n = 0 THEN Ok(s)
  ELSE LET before == Rounds(s, n - 1)
       IN  IF before.ok THEN decodeURIComponent(before.val) ELSE Failed

\* Round k is reached and returns its input unchanged.
StableAt(s, k) == Rounds(s, k - 1).ok /\ Rounds(s, k) = Rounds(s, k - 1)

\* C3: at most 3 rounds; a path is returned only as the unchanged output of a
\* round; otherwise null, and then only the fallback decides the outcome.
C3_BoundedDecoding ==
  \A i \in Req :
    pc[i] # "idle" =>
      /\ filePath[i].rounds <= 3
      /\ ~filePath[i].threw
      /\ filePath[i].ok =>
           /\ \E k \in 1..3 : StableAt(Looked(i), k) /\ filePath[i].val = Rounds(Looked(i), k).val
           /\ decodeURIComponent(filePath[i].val) = Ok(filePath[i].val)
      /\ (~ \E k \in 1..3 : StableAt(Looked(i), k)) =>
           /\ ~filePath[i].ok
           /\ cause[i] = "decode"
           /\ absolutePath[i] = <<>>
           /\ \A k \in 1..Len(probes[i]) : fallback.kind = "string" /\ probes[i][k] = fallback.path
           /\ Done(i) => outcome[i] = MissOutcome

\* A request under three layers of encoding, every round of which changed it,
\* has ended in the fallback or absence.
C3_Witness ==
  \E i \in Req :
    /\ Done(i)
    /\ Rounds(Looked(i), 3).ok
    /\ \A k \in 1..3 : ~StableAt(Looked(i), k)
    /\ ~filePath[i].ok
    /\ filePath[i].rounds = 3

(***************************************************************************)
(* C4. Mapping precedence: a request whose pathname is a key k of the      *)
(* mapping table has the outcome of resolving mapping[k] in place of the   *)
(* pathname (decoded, joined, contained and probed like any path, looked   *)
(* up once, not transitively); the file at the literal pathname k is not   *)
(* served in its place; a pathname that is no key is resolved unchanged.   *)
(***************************************************************************)
\* The outcome of resolving the path p against Root, without the table.
Resolution(p) ==
  LET decoded == decodeUriDeep(p)
      joined  == PathJoin(root, decoded.val)
  IN  IF decoded.ok /\ decoded.val # <<>> /\ startsWith(joined, root) /\ joined \in files
      THEN FileResponse(joined)
      ELSE MissOutcome

IsMiss(i) ==
  \/ ~filePath[i].ok
  \/ filePath[i].val = <<>>
  \/ ~startsWith(absolutePath[i], root)
  \/ absolutePath[i] \notin files

ResolvedToDirectory(i) ==
  /\ pc[i] # "idle"
  /\ filePath[i].ok
  /\ filePath[i].val # <<>>
  /\ \/ WithoutSlash(absolutePath[i]) = root
     \/ /\ Under(root, absolutePath[i])
        /\ WithoutSlash(absolutePath[i]) \in DirsOf(files)

\* C7: a request resolved to Root or to a directory under it is probed and
\* ends as a miss.
C7_IndexPattern ==
  \A i \in Req :
    /\ (pc[i] # "idle" /\ Pathname(i) = <<"/">> /\ Pathname(i) \notin DOMAIN mapping)
         => ResolvedToDirectory(i) /\ WithoutSlash(absolutePath[i]) = root
    /\ ResolvedToDirectory(i) =>
         /\ cause[i] \in {"none", "absent"}
         /\ probes[i] # <<>> /\ probes[i][1] = absolutePath[i]
         /\ Done(i) =>
              /\ cause[i] = "absent"
              /\ outcome[i] # FileResponse(absolutePath[i])
              /\ fallback.kind = "none" => outcome[i] = Null
              /\ fallback.kind = "string" /\ fallback.path \in files
                   => outcome[i] = FileResponse(fallback.path)

\* The request / has been answered with the existing fallback file /r/i.
C7_Witness ==
  \E i \in Req :
    /\ Done(i)
    /\ Pathname(i) = <<"/">>
    /\ absolutePath[i] = <<"/", "r", "/">>
    /\ fallback = [kind |-> "string", path |-> <<"/", "r", "/", "i">>]
    /\ outcome[i] = FileResponse(<<"/", "r", "/", "i">>)

C9_FallbackUnderRoot ==
  \A i \in Req :
    (Missed(i) /\ outcome[i].kind = "file") =>
      /\ outcome[i].path = PathJoin(root, args.fallback.path)
      /\ Under(root, fallback.path)
      /\ Under(root, outcome[i].path)

\* C9 amended: the path lies under Root when the value has no .. segment.
C9_FallbackPath ==
  /\ [](fallback.kind = "string" =>
          /\ fallback.path = PathJoin(PathResolve(args.root), args.fallback.path)
          /\ ~HasDotDot(args.fallback.path) => Under(root, fallback.path)
          /\ \A i \in Req :
               (Missed(i) /\ outcome[i].kind = "file") =>
                 /\ outcome[i].path = fallback.path
                 /\ ~HasDotDot(args.fallback.path) => Under(root, outcome[i].path))
  /\ [][fallback' = fallback /\ root' = root /\ args' = args]_vars

\* A miss has been answered with the fallback file i, which lies under Root.
C9_Witness ==
  \E i \in Req :
    /\ Missed(i)
    /\ args.fallback = [kind |-> "string", path |-> <<"i">>]
    /\ outcome[i] = FileResponse(WithSlash(root) \o <<"i">>)

(***************************************************************************)
(* C10. Single terminal outcome: every invocation ends in exactly one of   *)
(* SERVE(file), SERVE(callback result) and ABSENT; it probes the request   *)
(* path at most once and then the fallback path at most once, without      *)
(* retry, and it ends whenever the probes and the fallback function do.    *)
(***************************************************************************)
\* The probes an invocation may have made: the request path, then the fallback.
ProbePatterns(i) ==
  { <<>>, <<absolutePath[i]>> }
  \cup (IF fallback.kind = "string"
        THEN { <<fallback.path>>, <<absolutePath[i], fallback.path>> }
        ELSE {})

\* C10: one outcome of the three kinds, at most one probe of each path in
\* order, and every invocation ends.
C10_SingleOutcome ==
  /\ [](\A i \in Req :
          /\ Done(i) => outcome[i].kind \in {"file", "callback", "null"}
          /\ ~Done(i) => outcome[i] = Pending
          /\ outcome[i].kind = "callback" => fallback.kind \in {"sync", "async"}
          /\ probes[i] \in ProbePatterns(i)
          /\ Len(calls[i]) <= 1)
  /\ [][\A i \in Req : (Done(i) /\ outcome'[i] # outcome[i]) => pc'[i] = "idle"]_vars
  /\ \A i \in Req : (pc[i] # "idle") ~> Done(i)

\* An invocation has probed the request path and then the fallback path, and
\* has ended with the fallback file.
C10_Witness ==
  \E i \in Req :
    /\ Done(i)
    /\ Len(probes[i]) = 2
    /\ probes[i][1] = absolutePath[i]
    /\ probes[i][2] = fallback.path
    /\ outcome[i] = FileResponse(fallback.path)

(***************************************************************************)
(* C11. Request independence: with any invocations in flight together,     *)
(* interleaved at their exists() calls and at the fallback call, no step   *)
(* changes Root, the mapping table or the fallback path, a step of one     *)
(* invocation leaves the locals of every other one alone, and the outcome  *)
(* of an invocation is the outcome of its request run alone on the disk as *)
(* its own exists() calls found it; on an unchanged disk the same request  *)
(* has the same outcome.                                                   *)
(***************************************************************************)
\* The outcome of the request run alone, the disk being atProbe when the
\* request path is probed and atFallback when the fallback path is.
Alone(target, atProbe, atFallback) ==
  LET decoded == decodeUriDeep(MappedPathname(UrlPathname(target)))
      joined  == PathJoin(root, decoded.val)
      miss    == IF fallback.kind = "none" THEN Null
                 ELSE IF fallback.kind = "string"
                 THEN IF fallback.path \in atFallback
                      THEN FileResponse(fallback.path) ELSE Null
                 ELSE CallbackResponse
  IN  IF decoded.ok /\ decoded.val # <<>> /\ startsWith(joined, root) /\ joined \in atProbe
      THEN FileResponse(joined)
      ELSE miss

\* The disk as the first and as the last exists() of the invocation found it.
FirstSeen(i) == IF seen[i] = <<>> THEN {} ELSE seen[i][1]
LastSeen(i) == IF seen[i] = <<>> THEN {} ELSE seen[i][Len(seen[i])]

\* The disks the exists() calls of the invocation found.
DisksSeen(i) == { seen[i][k] : k \in 1..Len(seen[i]) }

\* The locals of an invocation.
Locals(i) == <<pc[i], req[i], filePath[i], absolutePath[i], outcome[i], cause[i],
               probes[i], calls[i], seen[i]>>

\* C11: the configuration never changes, a step touches the locals of one
\* invocation at most, every outcome is that of the request run alone on the
\* disk its probes found, and equal requests that found one disk end alike.
C11_RequestIndependence ==
  /\ [](\A i \in Req :
          /\ Len(seen[i]) = Len(probes[i]) - (IF pc[i] \in {"exists", "fallbackExists"} THEN 1 ELSE 0)
          /\ Done(i) => outcome[i] = Alone(req[i], FirstSeen(i), LastSeen(i)))
  /\ [](\A i, j \in Req :
          ( /\ Done(i) /\ Done(j)
            /\ req[i] = req[j]
            /\ Cardinality(DisksSeen(i) \cup DisksSeen(j)) <= 1 )
          => outcome[i] = outcome[j])
  /\ [][ /\ root' = root /\ mapping' = mapping /\ fallback' = fallback /\ args' = args
         /\ \A i, j \in Req :
              (i # j /\ Locals(i)' # Locals(i)) => Locals(j)' = Locals(j) ]_vars

\* Two invocations of one request are under way together, the file they ask
\* for having been removed and written again meanwhile: one found it missing
\* at the request path and present at the fallback path and has been served
\* it as the fallback; the other found it missing and waits for the answer
\* about the fallback path.
C11_Witness ==
  \E i, j \in Req :
    /\ i # j
    /\ req[i] = <<"/", "i">> /\ req[j] = <<"/", "i">>
    /\ Done(i) /\ cause[i] = "absent"
    /\ outcome[i] = FileResponse(<<"/", "r", "/", "i">>)
    /\ seen[i] = << FilesFull \ ChangedFiles, FilesFull >>
    /\ pc[j] = "fallbackExists"
    /\ seen[j] = << FilesFull \ ChangedFiles >>

====
